---- MODULE Spec2Model ----
(***************************************************************************)
(* The GameHub dashboard: the Memory Match engine (useMemoryDeck), the     *)
(* deck generator (reset/shuffle) and the address-backed configuration     *)
(* (useQueryPairs in the two older dashboards, useSearchParamState in the  *)
(* newest one).                                                            *)
(*                                                                         *)
(* The repository holds the dashboard in two builds that share the engine  *)
(* verbatim and differ in how the configuration is read:                   *)
(*   "query"  src/src/App.tsx 1-282 and src/unnamed/part_000               *)
(*   "param"  src/src/App.tsx 284-713                                      *)
(* JavaScript null/undefined timestamps are the number 0 (the code tests   *)
(* them by truthiness, so 0 and null are the same to it).                  *)
(***************************************************************************)
EXTENDS Integers, Sequences, FiniteSets, TLC

VARIABLES
  build,       \* which dashboard build runs: "query" or "param"
  hist,        \* session history: the addresses pushed in this document
  pos,         \* index in hist of the current address (window.location)
  pairs,       \* the pair count handed to MemoryMatch / useMemoryDeck
  activeView,  \* the active view of GamesDashboard
  deck,        \* useMemoryDeck: deck (<<>> while MemoryMatch is not mounted)
  moves,       \* useMemoryDeck: moves
  locked,      \* useMemoryDeck: locked
  startedAt,   \* useMemoryDeck: startedAt (0 = null)
  finishedAt,  \* useMemoryDeck: finishedAt (0 = null)
  timers,      \* pending setTimeout callbacks of the mounted engine, oldest first
  last         \* history variable: the event that produced this state

vars == <<build, hist, pos, pairs, activeView, deck, moves, locked,
          startedAt, finishedAt, timers, last>>

engineVars == <<deck, moves, locked, startedAt, finishedAt, timers>>

configVars == <<build, hist, pos, pairs, activeView>>

----------------------------------------------------------------------------
(* Bounds of the model *)

\* setTimeout callbacks pending at once
MaxTimers == 1
\* cap of the move counter
MaxMoves == 2
\* the same two caps where a whole deck is played (PlaySpec)
PlayMaxTimers == 2
PlayMaxMoves == 4
\* the same two caps for the engine on its own (EngineSpec)
EngineMaxTimers == 2
EngineMaxMoves == 2
\* the longest array handed to shuffle on its own
MaxShuffleLen == 4
\* entries of the session history
MaxHistory == 2

----------------------------------------------------------------------------
(* Program constants *)

MEMORY_PAIR_OPTIONS == {6, 8, 10, 12}

Views == {"dashboard", "memory", "zip"}

DefaultPairs == 8

DefaultView == "dashboard"

QueryPairsMin == 4

QueryPairsMax == 24

MatchDelay == 350

HideDelay == 650

emojis ==
  << "pizza", "gamepad", "rocket", "robot", "cat", "brain", "bolt", "rainbow",
     "cookie", "headphones", "puzzle", "gem", "fire", "moon", "disc", "wand" >>

Min(a, b) == IF a <= b THEN a ELSE b

----------------------------------------------------------------------------
(* The page address: window.location.search as the two query parameters.   *)
(* A parameter is absent (has = FALSE, what URLSearchParams.get answers    *)
(* with null) or carries a text; the text of `pairs` is a sequence of      *)
(* characters so that Number() and String() are computed, not assumed.     *)

Absent == [has |-> FALSE, str |-> <<>>]

Text(s) == [has |-> TRUE, str |-> s]

AbsentView == [has |-> FALSE, str |-> ""]

ViewText(s) == [has |-> TRUE, str |-> s]

Address(p, v) == [pairs |-> p, view |-> v]

\* the addresses a document is loaded with
Addresses ==
  { Address(Absent, AbsentView),
    Address(Text(<<"1", "0">>), ViewText("memory")),
    Address(Text(<<"9", "9">>), AbsentView),
    Address(Text(<<"6">>), ViewText("memory")),
    Address(Text(<<"5">>), ViewText("memory")),
    Address(Text(<<"a", "b", "c">>), ViewText("zip")),
    Address(Text(<<"2", "0">>), ViewText("settings")) }

Digits == <<"0", "1", "2", "3", "4", "5", "6", "7", "8", "9">>

IsDigit(c) == \E d \in 1..10 : Digits[d] = c

DigitValue(c) == (CHOOSE d \in 1..10 : Digits[d] = c) - 1

NaN == [nan |-> TRUE, val |-> 0]

Num(n) == [nan |-> FALSE, val |-> n]

RECURSIVE DecimalValue(_)
DecimalValue(s) ==
  IF s = <<>> THEN 0
  ELSE 10 * DecimalValue(SubSeq(s, 1, Len(s) - 1)) + DigitValue(s[Len(s)])

\* Number(value) for null, "" and texts over digits and letters:
\* Number(null) = Number("") = 0, a digit string is its decimal value,
\* anything else is NaN.
Number(raw) ==
  IF ~raw.has \/ raw.str = <<>> THEN Num(0)
  ELSE IF \A k \in 1..Len(raw.str) : IsDigit(raw.str[k])
       THEN Num(DecimalValue(raw.str))
       ELSE NaN

RECURSIVE String(_)
\* String(value) of a non-negative integer
String(n) ==
  IF n < 10 THEN <<Digits[n + 1]>>
  ELSE String(n \div 10) \o <<Digits[(n % 10) + 1]>>

\* useQueryPairs: Number.isFinite(n) && n >= 4 && n <= 24 ? n : 8
useQueryPairs(address) ==
  LET n == Number(address.pairs)
  IN  IF ~n.nan /\ n.val >= QueryPairsMin /\ n.val <= QueryPairsMax
      THEN n.val ELSE DefaultPairs

Undefined == [ok |-> FALSE, val |-> 0]

UndefinedView == [ok |-> FALSE, val |-> ""]

Parsed(v) == [ok |-> TRUE, val |-> v]

\* usePairsParam.parse
parsePairs(raw) ==
  IF ~raw.has \/ raw.str = <<>> THEN Undefined
  ELSE LET numeric == Number(raw)
       IN  IF ~numeric.nan /\ numeric.val \in MEMORY_PAIR_OPTIONS
           THEN Parsed(numeric.val) ELSE Undefined

\* useViewParam.parse
parseView(raw) ==
  IF raw.has /\ raw.str \in Views THEN Parsed(raw.str) ELSE UndefinedView

\* useSearchParamState.readValue: parsed ?? defaultValue
readValue(parsed, defaultValue) == IF parsed.ok THEN parsed.val ELSE defaultValue

usePairsParam(address) == readValue(parsePairs(address.pairs), DefaultPairs)

useViewParam(address) == readValue(parseView(address.view), DefaultView)

\* the pair count GamesDashboard hands to MemoryMatch on load
PairsOnLoad(b, address) ==
  IF b = "query" THEN useQueryPairs(address) ELSE usePairsParam(address)

\* the active view of GamesDashboard on load: useState("dashboard") in the
\* query build, useViewParam in the param build
ViewOnLoad(b, address) ==
  IF b = "query" THEN DefaultView ELSE useViewParam(address)

----------------------------------------------------------------------------
(* Deck generator *)

\* Math.floor(Math.random() * (i + 1)) for the random source `seed`:
\* a value of 0..i (seed 0 draws i every time and leaves the order as seeded)
randomIndex(seed, i) == (i * (seed + 1)) % (i + 1)

\* [a[i], a[j]] = [a[j], a[i]] on 0-based indices
swap(a, i, j) == [a EXCEPT ![i + 1] = a[j + 1], ![j + 1] = a[i + 1]]

RECURSIVE shuffleLoop(_, _, _)
shuffleLoop(a, i, seed) ==
  IF i > 0 THEN shuffleLoop(swap(a, i, randomIndex(seed, i)), i - 1, seed)
  ELSE a

shuffle(arr, seed) == shuffleLoop(arr, Len(arr) - 1, seed)

\* j drawn as Math.floor(Math.random() * a.length) in every iteration
drawRangeWholeArray(a, i) == 0..(Len(a) - 1)

\* the values Math.floor(Math.random() * (i + 1)) can take in iteration i
drawRange(a, i) == 0..i

\* the sequences of draws one call of shuffle on arr can make: one j per
\* iteration i = arr.length - 1 down to 1
Draws(arr) ==
  {draws \in [1..(Len(arr) - 1) -> 0..(Len(arr) - 1)] :
     \A i \in 1..(Len(arr) - 1) : draws[i] \in drawRange(arr, i)}

RECURSIVE shuffleDrawn(_, _, _)
\* the loop of shuffle with the draws written out
shuffleDrawn(a, i, draws) ==
  IF i > 0 THEN shuffleDrawn(swap(a, i, draws[i]), i - 1, draws)
  ELSE a

\* one call of shuffle: `a` starts as the copy [...arr], the loop swaps
\* inside `a` only; result is what the call returns, arr the caller's array
\* after the call
shuffleCall(arr, draws) ==
  [result |-> shuffleDrawn(arr, Len(arr) - 1, draws), arr |-> arr]

\* emojis.slice(0, n)
slice(arr, n) == SubSeq(arr, 1, Min(n, Len(arr)))

NewCard(id, emoji) ==
  [id |-> id, emoji |-> emoji, flipped |-> FALSE, matched |-> FALSE]

\* flatMap giving both cards of a pair the id idx*2
flatMapCardsSharingId(chosen) ==
  [k \in 1..(2 * Len(chosen)) |->
     NewCard(2 * ((k - 1) \div 2), chosen[((k - 1) \div 2) + 1])]

\* chosen.flatMap((e, idx) => [card idx*2, card idx*2+1])
flatMapCards(chosen) ==
  [k \in 1..(2 * Len(chosen)) |-> NewCard(k - 1, chosen[((k - 1) \div 2) + 1])]

\* the random sources a shuffle draws from
Seeds == {0, 1}

\* reset's deck for pair count p: shuffle(chosen.flatMap(...))
generate(p, seed) == shuffle(flatMapCards(slice(emojis, p)), seed)

\* the decks of every pair count either build can hand to useMemoryDeck,
\* computed once
decks ==
  [p \in QueryPairsMin..QueryPairsMax |-> [seed \in Seeds |-> generate(p, seed)]]

seeded(p, seed) == decks[p][seed]

----------------------------------------------------------------------------
(* Match engine: useMemoryDeck *)

\* d.filter(c => c.flipped && !c.matched)
open(d) == SelectSeq(d, LAMBDA c : c.flipped /\ ~c.matched)

\* deck.length && deck.every(c => c.matched)
allMatched(d) == Len(d) > 0 /\ \A k \in 1..Len(d) : d[k].matched

\* flip without `if (locked) return`
rejectsIgnoringLock(index) ==
  \/ index < 0 \/ index >= Len(deck)
  \/ deck[index + 1].flipped
  \/ deck[index + 1].matched

\* flip's early returns: `if (locked) return` and
\* `if (!card || card.flipped || card.matched) return prev`
rejects(index) ==
  \/ locked
  \/ index < 0 \/ index >= Len(deck)
  \/ deck[index + 1].flipped
  \/ deck[index + 1].matched

\* card.flipped = true on the copy d of the deck
flipCard(d, index) == [d EXCEPT ![index + 1].flipped = TRUE]

\* setMoves(m => m + 1) moved out of `if (open.length === 2)`
movesCountingEveryFlip(o) == moves + 1

\* the move counter after an accepted flip left the cards o open:
\* setMoves(m => m + 1) under `if (open.length === 2)`
movesAfterFlip(o) == IF Len(o) = 2 THEN moves + 1 ELSE moves

\* the match timer's update: cur.map(c => c.flipped && !c.matched ? {...c, matched: true} : c)
resolveMatch(cur) ==
  [k \in 1..Len(cur) |->
     IF cur[k].flipped /\ ~cur[k].matched THEN [cur[k] EXCEPT !.matched = TRUE]
     ELSE cur[k]]

\* the mismatch timer's update without `&& !c.matched`
resolveHideEveryFaceUp(cur) ==
  [k \in 1..Len(cur) |->
     IF cur[k].flipped THEN [cur[k] EXCEPT !.flipped = FALSE]
     ELSE cur[k]]

\* the mismatch timer's update: cur.map(c => c.flipped && !c.matched ? {...c, flipped: false} : c)
resolveHide(cur) ==
  [k \in 1..Len(cur) |->
     IF cur[k].flipped /\ ~cur[k].matched THEN [cur[k] EXCEPT !.flipped = FALSE]
     ELSE cur[k]]

\* the callback flip hands to setTimeout for the open pair (a, b): which of
\* the two callbacks, and the ids of the pair in its closure (the callback
\* never reads them). `stale` is a history field: a reset happened since the
\* callback was scheduled.
newTimer(a, b) ==
  [kind |-> IF a.emoji = b.emoji THEN "match" ELSE "hide",
   a |-> a.id, b |-> b.id, stale |-> FALSE]

\* the timeout flip passes to setTimeout with each callback
delay(tm) == IF tm.kind = "match" THEN MatchDelay ELSE HideDelay

\* what a fired callback does to the deck it finds
applyTimer(tm, cur) ==
  IF tm.kind = "match" THEN resolveMatch(cur) ELSE resolveHide(cur)

\* setTimeout's ordering (HTML timers): a callback waits for every callback
\* scheduled before it whose timeout is equal to or less than its own; it
\* may be delayed further by any amount.
CanFire(k) == \A i \in 1..(k - 1) : delay(timers[i]) > delay(timers[k])

RemoveAt(seq, k) == SubSeq(seq, 1, k - 1) \o SubSeq(seq, k + 1, Len(seq))

\* reset leaves pending callbacks pending: they now belong to a discarded
\* deck, and so do the ids in their closures
markStale(ts) ==
  [k \in 1..Len(ts) |-> [ts[k] EXCEPT !.stale = TRUE, !.a = -1, !.b = -1]]

\* the readings of performance.now() the model tells apart
Times == {1, 2}

\* the values performance.now() may return: it never goes back, so no
\* reading is below the readings the engine still holds
Readings == {t \in Times : t >= startedAt /\ t >= finishedAt}

\* setStartedAt(performance.now()) without `if (!startedAt)`
startReadingsEveryFlip == Readings

\* the values startedAt can have after an accepted flip:
\* if (!startedAt) setStartedAt(performance.now())
startReadings == IF startedAt = 0 THEN Readings ELSE {startedAt}

\* the completion effect on a deck that has just become d, with the start
\* reading s: if (deck.length && deck.every(c => c.matched)) setFinishedAt(performance.now())
completionEffect(d, s) ==
  IF allMatched(d)
  THEN \E t \in {r \in Times : r >= s /\ r >= finishedAt} : finishedAt' = t
  ELSE UNCHANGED finishedAt

Event(op, why) == [op |-> op, why |-> why, kind |-> "", a |-> -1, b |-> -1]

TimerEvent(tm) ==
  [op |-> "timer", why |-> IF tm.stale THEN "stale" ELSE "current",
   kind |-> tm.kind, a |-> tm.a, b |-> tm.b]

rejectReason(index) ==
  IF locked THEN "locked"
  ELSE IF index < 0 \/ index >= Len(deck) THEN "range"
  ELSE IF deck[index + 1].matched THEN "matched"
  ELSE "faceup"

\* MemoryMatch is rendered (and useMemoryDeck alive) in the memory view only
mounted == activeView = "memory"

\* flip with setMoves(m => m + 1) ahead of the early returns
flipCountingRejected(index) ==
  /\ mounted
  /\ UNCHANGED configVars
  /\ IF rejects(index)
     THEN /\ moves' = moves + 1
          /\ UNCHANGED <<deck, locked, startedAt, finishedAt, timers>>
          /\ last' = Event("reject", rejectReason(index))
     ELSE \E t \in startReadings :
          LET d == flipCard(deck, index)
              o == open(d)
          IN  /\ deck' = d
              /\ startedAt' = t
              /\ moves' = moves + 1
              /\ IF Len(o) = 2
                 THEN /\ locked' = TRUE
                      /\ timers' = Append(timers, newTimer(o[1], o[2]))
                 ELSE UNCHANGED <<locked, timers>>
              /\ completionEffect(d, t)
              /\ last' = Event("flip", IF Len(o) = 2 THEN "second" ELSE "first")

\* flip(index), with the render and effects that follow it
flip(index) ==
  /\ mounted
  /\ UNCHANGED configVars
  /\ IF rejects(index)
     THEN /\ UNCHANGED engineVars
          /\ last' = Event("reject", rejectReason(index))
     ELSE \E t \in startReadings :
          LET d == flipCard(deck, index)
              o == open(d)
          IN  /\ deck' = d
              /\ startedAt' = t
              /\ moves' = movesAfterFlip(o)
              /\ IF Len(o) = 2
                 THEN /\ locked' = TRUE
                      /\ timers' = Append(timers, newTimer(o[1], o[2]))
                 ELSE UNCHANGED <<locked, timers>>
              /\ completionEffect(d, t)
              /\ last' = Event("flip", IF Len(o) = 2 THEN "second" ELSE "first")

\* a callback that resolves the cards but leaves the lock as it is
timerFiresKeepingLock(k) ==
  /\ mounted
  /\ k \in 1..Len(timers)
  /\ CanFire(k)
  /\ UNCHANGED configVars
  /\ LET d == applyTimer(timers[k], deck)
     IN  /\ deck' = d
         /\ locked' = locked
         /\ timers' = RemoveAt(timers, k)
         /\ UNCHANGED <<moves, startedAt>>
         /\ completionEffect(d, startedAt)
         /\ last' = TimerEvent(timers[k])

\* a pending callback runs: its setDeck update, setLocked(false), and the
\* completion effect the new deck triggers
timerFires(k) ==
  /\ mounted
  /\ k \in 1..Len(timers)
  /\ CanFire(k)
  /\ UNCHANGED configVars
  /\ LET d == applyTimer(timers[k], deck)
     IN  /\ deck' = d
         /\ locked' = FALSE
         /\ timers' = RemoveAt(timers, k)
         /\ UNCHANGED <<moves, startedAt>>
         /\ completionEffect(d, startedAt)
         /\ last' = TimerEvent(timers[k])

\* the engine state reset() leaves for pair count p
resetTo(p, seed) ==
  /\ deck' = seeded(p, seed)
  /\ moves' = 0
  /\ locked' = FALSE
  /\ startedAt' = 0
  /\ finishedAt' = 0
  /\ timers' = markStale(timers)

\* MemoryMatch mounts: fresh hook state, then the [pairs] effect runs reset()
mountTo(p, seed) ==
  /\ deck' = seeded(p, seed)
  /\ moves' = 0
  /\ locked' = FALSE
  /\ startedAt' = 0
  /\ finishedAt' = 0
  /\ timers' = <<>>

\* MemoryMatch is not rendered: no engine state; callbacks still pending
\* belong to the unmounted instance and update nothing
unmounted ==
  /\ deck' = <<>>
  /\ moves' = 0
  /\ locked' = FALSE
  /\ startedAt' = 0
  /\ finishedAt' = 0
  /\ timers' = <<>>

\* a Restart button that reloads the document: location.href = `?pairs=${pairs}`
resetReloading(seed) ==
  /\ mounted
  /\ hist' = <<Address(Text(String(pairs)), AbsentView)>>
  /\ pos' = 1
  /\ pairs' = pairs
  /\ activeView' = DefaultView
  /\ unmounted
  /\ UNCHANGED build
  /\ last' = Event("load", "")

\* the Restart button: reset(), its shuffle drawing from the source `seed`
reset(seed) ==
  /\ mounted
  /\ UNCHANGED configVars
  /\ resetTo(pairs, seed)
  /\ last' = Event("reset", "restart")

----------------------------------------------------------------------------
(* Configuration store and dashboard shell *)

Builds == {"query", "param"}

\* window.location.search
search == hist[pos]

\* useMemoryDeck without the [pairs] effect: a new pair count keeps the deck
engineFollowsKeepingDeck(v, p) ==
  IF v # "memory" THEN unmounted
  ELSE IF ~mounted THEN \E seed \in Seeds : mountTo(p, seed)
  ELSE UNCHANGED engineVars

\* what rendering does to the engine when the view and the pair count
\* become v and p: MemoryMatch unmounts, mounts, re-runs the [pairs] effect
\* (reset) or stays as it is
engineFollows(v, p) ==
  IF v # "memory" THEN unmounted
  ELSE IF ~mounted THEN \E seed \in Seeds : mountTo(p, seed)
  ELSE IF p # pairs THEN \E seed \in Seeds : resetTo(p, seed)
  ELSE UNCHANGED engineVars

\* updateValue's address: url.searchParams.delete(key) when the value is the
\* default, url.searchParams.set(key, serialize(value)) otherwise
addressWithPairs(address, value) ==
  [address EXCEPT !.pairs = IF value = DefaultPairs THEN Absent ELSE Text(String(value))]

addressWithView(address, value) ==
  [address EXCEPT !.view = IF value = DefaultView THEN AbsentView ELSE ViewText(value)]

\* if (nextRelative !== currentRelative) window.history.pushState({}, "", nextRelative)
pushState(next) ==
  IF next # search
  THEN /\ pos < MaxHistory
       /\ hist' = Append(SubSeq(hist, 1, pos), next)
       /\ pos' = pos + 1
  ELSE UNCHANGED <<hist, pos>>

\* the Pairs select of the param build: onPairsChange = setPairs (updateValue)
setPairs(value) ==
  /\ build = "param"
  /\ mounted
  /\ value \in MEMORY_PAIR_OPTIONS
  /\ value # pairs
  /\ pairs' = value
  /\ pushState(addressWithPairs(search, value))
  /\ engineFollows(activeView, value)
  /\ UNCHANGED <<build, activeView>>
  /\ last' = Event("setPairs", "")

\* the Pairs select of the query build: location.href = `?pairs=${value}`
\* loads the document again with that address
selectPairs(value) ==
  /\ build = "query"
  /\ mounted
  /\ value \in MEMORY_PAIR_OPTIONS
  /\ value # pairs
  /\ LET address == Address(Text(String(value)), AbsentView)
     IN  /\ hist' = <<address>>
         /\ pos' = 1
         /\ pairs' = PairsOnLoad(build, address)
         /\ activeView' = ViewOnLoad(build, address)
  /\ unmounted
  /\ UNCHANGED build
  /\ last' = Event("load", "")

\* a navigation button: setActive(view) in the query build,
\* navigateTo(view) = setActiveView (updateValue) in the param build
navigateTo(view) ==
  /\ view \in Views
  /\ activeView' = view
  /\ IF build = "param" THEN pushState(addressWithView(search, view))
     ELSE UNCHANGED <<hist, pos>>
  /\ engineFollows(view, pairs)
  /\ UNCHANGED <<build, pairs>>
  /\ last' = Event("navigateTo", "")

\* back/forward inside the document: both hooks' onPopState run
\* setValue(readValue()) against the address moved to
popState(to) ==
  /\ build = "param"
  /\ to \in 1..Len(hist)
  /\ to = pos - 1 \/ to = pos + 1
  /\ pos' = to
  /\ pairs' = usePairsParam(hist[to])
  /\ activeView' = useViewParam(hist[to])
  /\ engineFollows(useViewParam(hist[to]), usePairsParam(hist[to]))
  /\ UNCHANGED <<build, hist>>
  /\ last' = Event("popstate", "")

----------------------------------------------------------------------------
(* The dashboard *)

\* the document has loaded with `address`: GamesDashboard has rendered and
\* its mount effects have run
loaded(b, address, seed) ==
  /\ build = b
  /\ hist = <<address>>
  /\ pos = 1
  /\ pairs = PairsOnLoad(b, address)
  /\ activeView = ViewOnLoad(b, address)
  /\ deck = (IF ViewOnLoad(b, address) = "memory"
             THEN seeded(PairsOnLoad(b, address), seed) ELSE <<>>)
  /\ moves = 0
  /\ locked = FALSE
  /\ startedAt = 0
  /\ finishedAt = 0
  /\ timers = <<>>
  /\ last = Event("load", "")

\* the address of the specification's scenario: ?pairs=10&view=memory
ScenarioAddress == Address(Text(<<"1", "0">>), ViewText("memory"))

Init == \E b \in Builds, seed \in Seeds : loaded(b, ScenarioAddress, seed)

\* flip(index) would reveal the second card of a pair
revealsSecond(index) ==
  ~rejects(index) /\ Len(open(flipCard(deck, index))) = 2

\* the caps of the model: a second card is revealed only while the move
\* counter and the pending callbacks are below their bounds
withinBounds(index, maxMoves, maxTimers) ==
  revealsSecond(index) => (moves < maxMoves /\ Len(timers) < maxTimers)

\* the indices the player clicks: the first three cards, and an index on
\* either side of the deck
FlipIndices == {-1, 0, 1, 2, Len(deck)}

Flip ==
  \E index \in FlipIndices :
     withinBounds(index, MaxMoves, MaxTimers) /\ flip(index)

TimerFires == \E k \in DOMAIN timers : timerFires(k)

Restart == \E seed \in Seeds : reset(seed)

SetPairs == \E value \in MEMORY_PAIR_OPTIONS : setPairs(value)

SelectPairs == \E value \in MEMORY_PAIR_OPTIONS : selectPairs(value)

NavigateTo == \E view \in Views : navigateTo(view)

PopState == \E to \in 1..MaxHistory : popState(to)

Next ==
  \/ Flip
  \/ TimerFires
  \/ Restart
  \/ SetPairs
  \/ SelectPairs
  \/ NavigateTo
  \/ PopState

Spec == Init /\ [][Next]_vars

----------------------------------------------------------------------------
(* The configuration alone, over every address: the dashboard is loaded     *)
(* with any of Addresses and the player changes pairs and view, goes back   *)
(* and forward and restarts, without flipping a card.                       *)

LoadInit ==
  \E b \in Builds, address \in Addresses, seed \in Seeds : loaded(b, address, seed)

LoadNext ==
  \/ Restart
  \/ SetPairs
  \/ SelectPairs
  \/ NavigateTo
  \/ PopState

LoadSpec == LoadInit /\ [][LoadNext]_vars

----------------------------------------------------------------------------
(* One whole game on the smallest deck the dashboard deals: the query build *)
(* loaded with ?pairs=4 (8 cards), every card within reach, flips,          *)
(* callbacks and Restart.                                                   *)

PlayAddress == Address(Text(<<"4">>), AbsentView)

PlayInit == \E seed \in Seeds : loaded("query", PlayAddress, seed)

PlayFlip ==
  \E index \in 0..(Len(deck) - 1) :
     withinBounds(index, PlayMaxMoves, PlayMaxTimers) /\ flip(index)

\* Restart (its shuffle leaving the order as seeded), while the pending
\* callbacks are below their bound
PlayRestart == Len(timers) < PlayMaxTimers /\ reset(0)

\* the player opens the memory view
PlayOpen == ~mounted /\ navigateTo("memory")

PlayNext ==
  \/ PlayOpen
  \/ PlayFlip
  \/ TimerFires
  \/ PlayRestart

PlaySpec == PlayInit /\ [][PlayNext]_vars

----------------------------------------------------------------------------
(* The match engine on its own: the param build, loaded into the memory    *)
(* view, with the first four cards in play and the configuration left      *)
(* alone.                                                                   *)

EngineInit == \E seed \in Seeds : loaded("param", ScenarioAddress, seed)

EngineFlipIndices == {0, 1, 2, 3}

EngineFlip ==
  \E index \in EngineFlipIndices :
    withinBounds(index, EngineMaxMoves, EngineMaxTimers) /\ flip(index)

EngineNext ==
  \/ EngineFlip
  \/ TimerFires
  \/ Restart

EngineSpec == EngineInit /\ [][EngineNext]_vars

\* the engine with the browser's timer guarantee: a callback handed to
\* window.setTimeout is run once its delay has passed
EngineFairSpec == EngineSpec /\ WF_vars(TimerFires)

----------------------------------------------------------------------------
(* shuffle on its own: deck holds the array handed to shuffle and then the  *)
(* array it returned; last records the call.                                *)

ShuffleCards == {flatMapCards(emojis)[k] : k \in 1..MaxShuffleLen}

\* the arrays of distinct cards handed to shuffle
ShuffleInputs ==
  {arr \in UNION {[1..n -> ShuffleCards] : n \in 0..MaxShuffleLen} :
     \A j, k \in DOMAIN arr : arr[j] = arr[k] => j = k}

ShuffleInit ==
  /\ build = "param"
  /\ hist = <<Address(Absent, AbsentView)>>
  /\ pos = 1
  /\ pairs = DefaultPairs
  /\ activeView = "memory"
  /\ deck \in ShuffleInputs
  /\ moves = 0
  /\ locked = FALSE
  /\ startedAt = 0
  /\ finishedAt = 0
  /\ timers = <<>>
  /\ last = Event("load", "")

Shuffle ==
  /\ last.op # "shuffle"
  /\ \E draws \in Draws(deck) :
       LET call == shuffleCall(deck, draws)
       IN  /\ deck' = call.result
           /\ last' = [op |-> "shuffle", arr |-> deck, after |-> call.arr,
                       draws |-> draws]
  /\ UNCHANGED <<configVars, moves, locked, startedAt, finishedAt, timers>>

ShuffleNext == Shuffle

ShuffleSpec == ShuffleInit /\ [][ShuffleNext]_vars

----------------------------------------------------------------------------
(* Properties *)

engineOps == {"flip", "reject", "timer"}

cardById(d, id) == d[CHOOSE k \in 1..Len(d) : d[k].id = id]

\* the cards of deck d that carry the token e
cardsOf(d, e) == {k \in 1..Len(d) : d[k].emoji = e}

tokensOf(d) == {d[k].emoji : k \in 1..Len(d)}

allFaceDown(d) == \A k \in 1..Len(d) : ~d[k].flipped /\ ~d[k].matched

twoPerToken(d) == \A e \in tokensOf(d) : Cardinality(cardsOf(d, e)) = 2

\* C1: a callback scheduled before a reset changes neither the deck nor the
\* move counter when it fires after that reset.
StaleTimerSafety ==
  [][(last'.op = "timer" /\ last'.why = "stale") => (deck' = deck /\ moves' = moves)]_vars

\* C2: in every reachable state at most two cards are face-up and not matched.
FlipInvariant == Len(open(deck)) <= 2

\* C2 witness: two cards are face-up and unresolved, and a flip has just
\* been turned away by the lock.
FlipInvariantWitness ==
  last.op = "reject" /\ last.why = "locked" /\ Len(open(deck)) = 2

\* C3: when the callback scheduled for a revealed pair fires, the two cards
\* of the pair are both matched if their tokens are equal, and both
\* face-down and unmatched if their tokens differ.
ResolutionCorrectness ==
  [][(last'.op = "timer" /\ last'.why = "current") =>
       LET ca == cardById(deck', last'.a)
           cb == cardById(deck', last'.b)
       IN  IF ca.emoji = cb.emoji
           THEN ca.matched /\ cb.matched
           ELSE ~ca.flipped /\ ~cb.flipped /\ ~ca.matched /\ ~cb.matched]_vars

\* C4: the move counter goes up by exactly 1 on an accepted flip that
\* reveals the second card of a pair, and is unchanged by a flip that reveals
\* a first card, by a rejected flip and by a callback firing.
MoveCountInvariant ==
  [][last'.op \in engineOps =>
       IF last'.op = "flip" /\ Len(open(deck)) = 1 /\ Len(open(deck')) = 2
       THEN moves' = moves + 1
       ELSE moves' = moves]_vars

\* C4 witness: the second card of a pair has just been revealed, for the
\* second time in this game.
MoveCountWitness ==
  last.op = "flip" /\ Len(open(deck)) = 2 /\ moves = 2

\* the flips the claim calls invalid
invalidFlip(index) ==
  \/ locked
  \/ index < 0 \/ index >= Len(deck)
  \/ deck[index + 1].flipped
  \/ deck[index + 1].matched

\* C5: flip(index) while the lock is held, with an index out of range, or on
\* a card already face-up or matched leaves the deck, the move counter, the
\* lock, both timestamps and the pending callbacks as they were.
InvalidFlipNoOp ==
  [][\A index \in FlipIndices :
       (invalidFlip(index) /\ flip(index)) => UNCHANGED engineVars]_vars

\* C5 witness: a flip has just been rejected while the lock was held and a
\* callback was pending.
InvalidFlipWitness ==
  last.op = "reject" /\ last.why = "locked" /\ locked /\ Len(timers) = 1

\* C6: after reset the deck has 2 x pairs cards, all face-down and
\* unmatched, two per token, the move counter is 0, the lock is released and
\* both timestamps are cleared.
ResetCorrectness ==
  last.op = "reset" =>
    /\ Len(deck) = 2 * pairs
    /\ allFaceDown(deck)
    /\ twoPerToken(deck)
    /\ moves = 0
    /\ ~locked
    /\ startedAt = 0
    /\ finishedAt = 0

\* C7: finishedAt is absent while some card is unmatched, present once
\* every card is matched, and from then on keeps its value under every flip
\* and callback.
CompletionOnce ==
  [][/\ ~allMatched(deck') => finishedAt' = 0
     /\ allMatched(deck') => finishedAt' # 0
     /\ (finishedAt # 0 /\ last'.op \in engineOps) => finishedAt' = finishedAt]_vars

\* C8: for every supported pair count p the generated deck has 2p cards
\* with pairwise distinct ids, p distinct tokens, two cards per token, every
\* card face-down and unmatched.
DeckGeneration ==
  (mounted /\ pairs \in MEMORY_PAIR_OPTIONS) =>
    /\ Len(deck) = 2 * pairs
    /\ \A j, k \in 1..Len(deck) : deck[j].id = deck[k].id => j = k
    /\ Cardinality(tokensOf(deck)) = pairs
    /\ twoPerToken(deck)
    /\ allFaceDown(deck)

\* C8 witness: a 12-pair deck has been dealt, in another order than seeded.
DeckGenerationWitness ==
  mounted /\ pairs = 12 /\ Len(deck) = 24 /\ deck[1].id # 0

\* the pair count the claim expects for the text of the `pairs` parameter
expectedPairs(raw) ==
  IF raw.has /\ \E n \in MEMORY_PAIR_OPTIONS : raw.str = String(n)
  THEN CHOOSE n \in MEMORY_PAIR_OPTIONS : raw.str = String(n)
  ELSE DefaultPairs

\* C9: on load the pair count handed to the engine is the value of `pairs`
\* when that is one of 6, 8, 10, 12, and 8 for every other value.
PairsNormalised ==
  last.op = "load" => pairs = expectedPairs(search.pairs)

\* the view the claim expects for the text of the `view` parameter
expectedView(raw) == IF raw.has /\ raw.str \in Views THEN raw.str ELSE DefaultView

\* C10: on load the active view is the `view` parameter when that is one
\* of dashboard, memory, zip, and dashboard otherwise; ?pairs=10&view=memory
\* shows the memory view with a 20-card deck.
ViewFromAddress ==
  last.op = "load" =>
    /\ activeView = expectedView(search.view)
    /\ search = ScenarioAddress => (activeView = "memory" /\ Len(deck) = 20)

\* the in-document ways the pair count and the view are set or re-read
configOps == {"setPairs", "navigateTo", "popstate"}

\* the text the claim expects the address to carry for a pair count
pairsField(value) == IF value = DefaultPairs THEN Absent ELSE Text(String(value))

\* the text the claim expects the address to carry for a view
viewField(view) == IF view = DefaultView THEN AbsentView ELSE ViewText(view)

\* C11: setting pairs or view to v makes the in-memory value v and, with
\* no reload of the document, makes the address carry the field with v when
\* v is not the default and carry no such field when v is the default.
ConfigurationSet ==
  [][/\ \A value \in MEMORY_PAIR_OPTIONS :
          (setPairs(value) \/ selectPairs(value)) =>
             /\ pairs' = value
             /\ last'.op # "load"
             /\ search'.pairs = pairsField(value)
     /\ \A view \in Views :
          navigateTo(view) =>
             /\ activeView' = view
             /\ last'.op # "load"
             /\ search'.view = viewField(view)]_vars

\* C12: after every in-app set operation and every back/forward event the
\* in-memory pair count and view are the normalised values of the current
\* address.
AddressMemoryConsistency ==
  last.op \in configOps =>
    /\ pairs = expectedPairs(search.pairs)
    /\ activeView = expectedView(search.view)

SingleTimer == Len(timers) <= 1

\* the steps that replace or discard the deck
resetOps == {"reset", "setPairs", "navigateTo", "popstate", "load"}

\* the ids of the cards that are face-up and unresolved
openIds(d) == {open(d)[k].id : k \in 1..Len(open(d))}

\* C15: from the flip that reveals the second card of a pair the lock
\* stays held, and no flip is accepted, until the callback scheduled for that
\* pair fires or a reset occurs; nothing else releases the lock.
LockDuration ==
  [][/\ (locked /\ ~locked') =>
          \/ last'.op \in resetOps
          \/ /\ last'.op = "timer"
             /\ last'.why = "current"
             /\ {last'.a, last'.b} = openIds(deck)
     /\ locked => last'.op # "flip"]_vars

\* C16: for every address the deck built for the resolved pair count has
\* exactly 2 x pairs cards, no duplicate ids and two cards per token, and a
\* pair count above the size of the palette never reaches the generator.
DeckMatchesConfiguration ==
  mounted =>
    /\ pairs <= Len(emojis)
    /\ Len(deck) = 2 * pairs
    /\ Cardinality({deck[k].id : k \in 1..Len(deck)}) = Len(deck)
    /\ twoPerToken(deck)

RECURSIVE Factorial(_)
Factorial(n) == IF n <= 1 THEN 1 ELSE n * Factorial(n - 1)

\* how often x occurs in the sequence a
occurrences(a, x) == Cardinality({k \in 1..Len(a) : a[k] = x})

IsPermutation(a, b) ==
  /\ Len(a) = Len(b)
  /\ \A k \in 1..Len(b) : occurrences(a, b[k]) = occurrences(b, b[k])

\* C17: shuffle returns a permutation of its input and leaves the input as
\* it was, and each of the n! orderings of an n-element input comes from
\* exactly one sequence of draws.
ShuffleUniform ==
  last.op = "shuffle" =>
    /\ IsPermutation(deck, last.arr)
    /\ last.after = last.arr
    /\ Cardinality(Draws(last.arr)) = Factorial(Len(last.arr))
    /\ \A draws \in Draws(last.arr) :
         shuffleCall(last.arr, draws).result = deck => draws = last.draws

\* C17 witness: an array of four cards came back in another order.
ShuffleWitness ==
  last.op = "shuffle" /\ Len(deck) = 4 /\ deck # last.arr /\ last.draws[3] = 0

\* C18: startedAt is absent until the first accepted flip after the deck
\* was dealt or reset, that flip sets it, a rejected flip never sets it, and
\* no later flip or callback changes it until the next reset.
SessionStart ==
  [][/\ (startedAt = 0 /\ last'.op # "flip") => startedAt' = 0
     /\ last'.op = "reset" => startedAt' = 0
     /\ last'.op \in {"reject", "timer"} => startedAt' = startedAt
     /\ last'.op = "flip" =>
          /\ startedAt' # 0
          /\ startedAt # 0 => startedAt' = startedAt]_vars

\* C18 witness: after a pair was resolved another card has been flipped,
\* and the session start is still the one the first flip set.
SessionStartWitness ==
  last.op = "flip" /\ last.why = "first" /\ moves = 1 /\ startedAt = 1

\* C19: a matched card is face-up in every reachable state, and under every
\* flip and callback a matched card stays where it is, matched and face-up.
MatchedPermanent ==
  [][/\ \A k \in 1..Len(deck') : deck'[k].matched => deck'[k].flipped
     /\ last'.op \in engineOps =>
          \A k \in 1..Len(deck) :
            deck[k].matched =>
              /\ deck'[k].id = deck[k].id
              /\ deck'[k].matched
              /\ deck'[k].flipped]_vars

\* C19 witness: the mismatch callback has just turned a pair face-down
\* while another pair was already matched.
MatchedPermanentWitness ==
  /\ last.op = "timer"
  /\ last.kind = "hide"
  /\ last.why = "current"
  /\ \E k \in 1..Len(deck) : deck[k].matched

\* C20: no flip, Restart or callback changes the in-memory pair count, the
\* active view or the address.
ConfigurationPersists ==
  [][(Flip \/ TimerFires \/ Restart) => UNCHANGED <<pairs, activeView, hist, pos>>]_vars

\* C20 witness: after flips and a Restart a callback has fired, and the
\* page is still the one loaded from ?pairs=10&view=memory.
ConfigurationPersistsWitness ==
  /\ last.op = "timer"
  /\ last.why = "stale"
  /\ pairs = 10
  /\ activeView = "memory"
  /\ search = ScenarioAddress

\* C21: setting the pair count leaves the in-memory view and the view entry
\* of the address as they were, and setting the view leaves the in-memory
\* pair count and the pairs entry of the address as they were.
IndependentFields ==
  [][/\ \A value \in MEMORY_PAIR_OPTIONS :
          (setPairs(value) \/ selectPairs(value)) =>
             /\ activeView' = activeView
             /\ search'.view = search.view
     /\ \A view \in Views :
          navigateTo(view) =>
             /\ pairs' = pairs
             /\ search'.pairs = search.pairs]_vars

\* C22: a card is matched only if the other card with its token is
\* matched too.
PairingInvariant ==
  \A k \in 1..Len(deck) :
    deck[k].matched =>
      \E j \in 1..Len(deck) :
        j # k /\ deck[j].emoji = deck[k].emoji /\ deck[j].matched

\* C23: the lock is held exactly when two unresolved cards are face-up,
\* which is exactly when a callback scheduled for the current deck is pending.
LockStateAgreement ==
  /\ locked <=> Len(open(deck)) = 2
  /\ Len(open(deck)) = 2 <=> \E k \in 1..Len(timers) : ~timers[k].stale

\* the unmatched cards of deck d that carry the token e
unmatchedOf(d, e) == {k \in cardsOf(d, e) : ~d[k].matched}

\* the unmatched cards whose partner is matched already: a match callback
\* is scheduled only for two face-up cards of one token, so with no callback
\* pending no sequence of flips can ever match such a card
stranded(d) ==
  {k \in 1..Len(d) : ~d[k].matched /\ Cardinality(unmatchedOf(d, d[k].emoji)) = 1}

\* C24: whenever the lock is held, as long as pending callbacks eventually
\* run, a later state has the lock released and no unresolved card face-up
\* (Idle or Complete).
LockEventuallyReleased ==
  locked ~> (~locked /\ Len(open(deck)) = 0)

\* C24 witness: a callback has just released a lock taken by a second flip
\* and left no unresolved card face-up.
LockEventuallyReleasedWitness ==
  /\ last.op = "timer"
  /\ moves >= 1
  /\ ~locked
  /\ Len(open(deck)) = 0
  /\ timers = <<>>

\* C25: no state is reachable in which unmatched cards remain, no callback
\* is pending, and no sequence of flips and callbacks can match them all.
NoDeadEnd ==
  (timers = <<>> /\ ~allMatched(deck)) => stranded(deck) = {}

matchedCards(d) == {k \in 1..Len(d) : d[k].matched}

\* C26: the number of matched pairs of the current deck (matched cards
\* divided by two) is at most the move counter.
MatchesCostMoves == Cardinality(matchedCards(deck)) \div 2 <= moves

====
